---- MODULE Spec2Model ----
(***************************************************************************)
(* Room allocation and stay lifecycle engine of the front-office database  *)
(* (class FrontOfficeDB of app.py).                                        *)
(*                                                                         *)
(* Text columns are modelled as sequences of one-character strings, so     *)
(* that stripping, the '.' test, int() and str() are computed and not      *)
(* assumed.  A date/time text is the pair <<day, kind>>: kind "date" is    *)
(* the text 'YYYY-MM-DD' (date.isoformat()), kind "datetime" is the text   *)
(* 'YYYY-MM-DD HH:MM:SS' (what the import and CURRENT_TIMESTAMP store).    *)
(***************************************************************************)
EXTENDS Integers, Sequences, FiniteSets, TLC

VARIABLES
    reservations,   \* table reservations: id -> row
    stays,          \* table stays: id -> row
    rooms,          \* table rooms: room_number -> status
    seq,            \* sqlite_sequence of stays: the largest id ever given
    now,            \* the clock CURRENT_TIMESTAMP reads
    calls,          \* history: the calls made on a loaded database
    pcs             \* concurrent sessions: where each stands in its check-in

vars == <<reservations, stays, rooms, seq, now, calls, pcs>>

db_vars == <<reservations, stays, rooms, seq>>

-----------------------------------------------------------------------------
(* Bounds of the model.                                                    *)

\* number of reservation rows the import has stored (ids 1..NRes)
NRes == 2
\* calendar days 1..MaxDay
MaxDay == 3
\* stays rows ever inserted (AUTOINCREMENT ids 1..MaxStays)
MaxStays == 3
\* stays rows of a loaded database file
MaxLoaded == 2
\* calls recorded on a loaded database
MaxCalls == 2
\* length of the room texts a clerk types, besides the listed ones
MaxLen == 3
\* sessions that check in at the same time
NClients == 2
\* calls recorded on the front-desk pages that show the date-scoped lists
MaxViewCalls == 3

-----------------------------------------------------------------------------
(* Text values.                                                            *)

\* SQL NULL / Python None in a text column: no character is called "NULL"
NULL == <<"NULL">>
\* SQL NULL in a date/time column
NULLT == <<0, "null">>

DigitChars == <<"0", "1", "2", "3", "4", "5", "6", "7", "8", "9">>

IsDigit(c) == \E i \in 1..10 : DigitChars[i] = c

DigitVal(c) == (CHOOSE i \in 1..10 : DigitChars[i] = c) - 1

\* str(n) for an integer n
RECURSIVE NatToStr(_)
NatToStr(n) == IF n < 10 THEN <<DigitChars[n + 1]>>
               ELSE NatToStr(n \div 10) \o <<DigitChars[(n % 10) + 1]>>

IntToStr(n) == IF n < 0 THEN <<"-">> \o NatToStr(0 - n) ELSE NatToStr(n)

\* value of a non-empty sequence of digits
RECURSIVE DigitsToNat(_)
DigitsToNat(s) == IF Len(s) = 0 THEN 0
                  ELSE DigitsToNat(SubSeq(s, 1, Len(s) - 1)) * 10 + DigitVal(s[Len(s)])

AllDigits(s) == Len(s) > 0 /\ \A i \in 1..Len(s) : IsDigit(s[i])

\* str.strip(): drops leading and trailing blanks
RECURSIVE LStrip(_)
LStrip(s) == IF Len(s) > 0 /\ s[1] = " " THEN LStrip(Tail(s)) ELSE s

RECURSIVE RStrip(_)
RStrip(s) == IF Len(s) > 0 /\ s[Len(s)] = " " THEN RStrip(SubSeq(s, 1, Len(s) - 1)) ELSE s

strip(s) == RStrip(LStrip(s))

\* truth value of a Python str-or-None: None and '' are falsy
Truthy(s) == s # NULL /\ Len(s) > 0

\* int(s): optional sign, then digits; anything else raises ValueError
PyInt(s) ==
    LET t == strip(s)
        signed == Len(t) > 0 /\ t[1] \in {"+", "-"}
        body == IF signed THEN Tail(t) ELSE t
    IN  IF AllDigits(body)
        THEN [ok |-> TRUE,
              val |-> IF signed /\ t[1] = "-" THEN 0 - DigitsToNat(body) ELSE DigitsToNat(body)]
        ELSE [ok |-> FALSE, val |-> 0]

Contains(s, c) == \E i \in 1..Len(s) : s[i] = c

\* int(float(s)): optional sign, digits with at most one '.', truncated
\* toward zero; anything else raises ValueError
PyFloatInt(s) ==
    LET t == strip(s)
        signed == Len(t) > 0 /\ t[1] \in {"+", "-"}
        body == IF signed THEN Tail(t) ELSE t
        dots == { i \in 1..Len(body) : body[i] = "." }
        dot == IF dots = {} THEN Len(body) + 1 ELSE CHOOSE i \in dots : \A j \in dots : i <= j
        ip == SubSeq(body, 1, dot - 1)
        fp == SubSeq(body, dot + 1, Len(body))
        wellformed == /\ ip = <<>> \/ AllDigits(ip)
                      /\ fp = <<>> \/ AllDigits(fp)
                      /\ ip # <<>> \/ fp # <<>>
        mag == IF ip = <<>> THEN 0 ELSE DigitsToNat(ip)
    IN  IF wellformed
        THEN [ok |-> TRUE, val |-> IF signed /\ t[1] = "-" THEN 0 - mag ELSE mag]
        ELSE [ok |-> FALSE, val |-> 0]

-----------------------------------------------------------------------------
(* Room inventory.                                                         *)

ROOM_BLOCKS == <<
    <<100, 115>>, <<300, 313>>, <<400, 413>>, <<500, 513>>,
    <<600, 613>>, <<700, 709>>, <<800, 809>>, <<900, 909>>,
    <<1000, 1009>>, <<1100, 1109>>, <<1200, 1209>>, <<1300, 1309>>,
    <<1400, 1409>>, <<1500, 1509>>, <<1600, 1609>>, <<1700, 1705>> >>

\* a variant of the test below that takes a block's end as exclusive
InBlocksHalfOpen(n) == \E b \in 1..Len(ROOM_BLOCKS) : ROOM_BLOCKS[b][1] <= n /\ n < ROOM_BLOCKS[b][2]

InBlocks(n) == \E b \in 1..Len(ROOM_BLOCKS) : ROOM_BLOCKS[b][1] <= n /\ n <= ROOM_BLOCKS[b][2]

\* the room numbers range(start, end + 1) of every block, as text
BlockRooms == { NatToStr(n) : n \in UNION { ROOM_BLOCKS[b][1]..ROOM_BLOCKS[b][2] : b \in 1..Len(ROOM_BLOCKS) } }

\* is_valid_room_number: (True, canonical text) or (False, reason)
is_valid_room_number(room_number) ==
    IF ~Truthy(room_number) \/ ~Truthy(strip(room_number))
    THEN [ok |-> FALSE, result |-> NULL, msg |-> "Room number cannot be empty"]
    ELSE IF Contains(strip(room_number), ".")
    THEN [ok |-> FALSE, result |-> NULL, msg |-> "Room number cannot have decimals. Use whole numbers only"]
    ELSE LET p == PyInt(room_number)
         IN  IF ~p.ok
             THEN [ok |-> FALSE, result |-> NULL, msg |-> "Room number must be a valid whole number"]
             ELSE IF InBlocks(p.val)
             THEN [ok |-> TRUE, result |-> IntToStr(p.val), msg |-> ""]
             ELSE [ok |-> FALSE, result |-> NULL, msg |-> "Room not in valid ranges"]

-----------------------------------------------------------------------------
(* Date and time text.                                                     *)

DateText(d) == <<d, "date">>

DateTimeText(d) == <<d, "datetime">>

\* SQLite's a < b on two non-NULL date/time texts: 'YYYY-MM-DD' is a proper
\* prefix of 'YYYY-MM-DD HH:MM:SS', so on the same day the shorter is less
TextLess(a, b) ==
    /\ a # NULLT
    /\ b # NULLT
    /\ \/ a[1] < b[1]
       \/ a[1] = b[1] /\ a[2] = "date" /\ b[2] = "datetime"

\* SQLite's date(x): the day of a date or datetime text, NULL for NULL
SqlDate(a) == IF a = NULLT THEN NULLT ELSE DateText(a[1])

\* datetime.fromisoformat(text).date().isoformat()
IsoDate(a) == DateText(a[1])

-----------------------------------------------------------------------------
(* The database and its statements.  Each statement is one call of         *)
(* FrontOfficeDB.execute, which commits on its own connection.             *)

DB == [reservations |-> reservations, stays |-> stays, rooms |-> rooms, seq |-> seq]

StayRow(res_id, room, status, arr, dep, cin, cout) ==
    [reservation_id |-> res_id, room_number |-> room, status |-> status,
     checkin_planned |-> arr, checkout_planned |-> dep,
     checkin_actual |-> cin, checkout_actual |-> cout]

\* INSERT INTO stays (...) VALUES (...): AUTOINCREMENT gives the id seq + 1
InsertStay(db, row) ==
    [db EXCEPT !.stays = [i \in DOMAIN db.stays \cup {db.seq + 1} |->
                             IF i = db.seq + 1 THEN row ELSE db.stays[i]],
               !.seq = db.seq + 1]

\* DELETE FROM stays WHERE id = ?
DeleteStay(db, id) ==
    [db EXCEPT !.stays = [i \in DOMAIN db.stays \ {id} |-> db.stays[i]]]

\* UPDATE stays SET status = ?, checkout_actual = ? WHERE id = ?
UpdateStayStatus(db, id, status, cout) ==
    IF id \in DOMAIN db.stays
    THEN [db EXCEPT !.stays[id].status = status, !.stays[id].checkout_actual = cout]
    ELSE db

\* UPDATE rooms SET status = ? WHERE room_number = ?
UpdateRoomStatus(db, room, status) ==
    IF room \in DOMAIN db.rooms
    THEN [db EXCEPT !.rooms = [db.rooms EXCEPT ![room] = status]]
    ELSE db

\* a variant of the statement below that writes the status only to the rooms
\* that do not have it and the other status to those that do
FlipAllRooms(db, status) ==
    [db EXCEPT !.rooms = [r \in DOMAIN db.rooms |->
                             IF db.rooms[r] = status THEN "OCCUPIED" ELSE status]]

\* UPDATE rooms SET status = ?
UpdateAllRooms(db, status) ==
    [db EXCEPT !.rooms = [r \in DOMAIN db.rooms |-> status]]

\* a variant of the statement below with INSERT OR REPLACE: a row whose
\* room_number exists is written again as VACANT
InsertRoomsReplace(db, rns) ==
    [db EXCEPT !.rooms = [r \in DOMAIN db.rooms \cup rns |->
                             IF r \in rns THEN "VACANT" ELSE db.rooms[r]]]

\* INSERT [OR IGNORE] INTO rooms (room_number, status) VALUES (?, 'VACANT')
\* [ON CONFLICT DO NOTHING], for every room number of rns in one transaction:
\* a row whose room_number exists is left as it is
InsertRoomsIgnore(db, rns) ==
    IF rns \subseteq DOMAIN db.rooms
    THEN db
    ELSE [db EXCEPT !.rooms = [r \in DOMAIN db.rooms \cup rns |->
                                  IF r \in DOMAIN db.rooms THEN db.rooms[r] ELSE "VACANT"]]

\* UPDATE reservations SET room_number = ?, updated_at = datetime('now') WHERE id = ?
UpdateReservationRoom(db, id, room, t) ==
    IF id \in DOMAIN db.reservations
    THEN [db EXCEPT !.reservations[id].room_number = room,
                    !.reservations[id].updated_at = DateTimeText(t)]
    ELSE db

\* a message: its fixed text and the values formatted into it; until is the
\* date a message carries, and no f-string of the class formats one
Msg(text) == [text |-> text, room |-> NULL, guest |-> NULL, resno |-> NULL, until |-> NULLT]

\* what a handler returns: (success, message), and the database it leaves
Ret(db, ok, text) == [db |-> db, ok |-> ok, msg |-> Msg(text)]

-----------------------------------------------------------------------------
(* The handlers, each computed as its code runs when no other call         *)
(* interleaves: db is the database at the call, t the clock reading.       *)

\* a variant of ensure_room_exists that inserts nothing
ensure_room_skipped(db, room_number) == db

\* ensure_room_exists
ensure_room_exists(db, room_number) ==
    IF ~Truthy(room_number) THEN db ELSE InsertRoomsIgnore(db, {strip(room_number)})

\* check_room_conflict: a stub, consulted by no handler
check_room_conflict(db, room_number, d) == {}

\* a variant of checkin_reservation without the call of is_valid_room_number
checkin_unvalidated(db, res_id, t) ==
    IF res_id \notin DOMAIN db.reservations
    THEN Ret(db, FALSE, "Reservation not found")
    ELSE LET res == db.reservations[res_id] IN
    IF ~Truthy(res.room_number)
    THEN Ret(db, FALSE, "Assign a room first")
    ELSE LET d1 == ensure_room_exists(db, res.room_number)
             d2 == InsertStay(d1, StayRow(res_id, res.room_number, "CHECKED_IN",
                                          res.arrival_date, res.depart_date,
                                          DateTimeText(t), NULLT))
             d3 == UpdateRoomStatus(d2, res.room_number, "OCCUPIED")
         IN  Ret(d3, TRUE, "Checked in successfully")

\* a variant of checkin_reservation that writes the canonical room number
\* back to the reservation
checkin_writing_back(db, res_id, t) ==
    IF res_id \notin DOMAIN db.reservations
    THEN Ret(db, FALSE, "Reservation not found")
    ELSE LET res == db.reservations[res_id] IN
    IF ~Truthy(res.room_number)
    THEN Ret(db, FALSE, "Assign a room first")
    ELSE LET v == is_valid_room_number(res.room_number) IN
    IF ~v.ok
    THEN Ret(db, FALSE, v.msg)
    ELSE LET d1 == ensure_room_exists(db, v.result)
             d2 == InsertStay(d1, StayRow(res_id, v.result, "CHECKED_IN",
                                          res.arrival_date, res.depart_date,
                                          DateTimeText(t), NULLT))
             d3 == UpdateRoomStatus(d2, v.result, "OCCUPIED")
             d4 == UpdateReservationRoom(d3, res_id, v.result, t)
         IN  Ret(d4, TRUE, "Checked in successfully")

\* a variant of checkin_reservation that refuses a room another reservation
\* holds over days that meet the reservation's own
checkin_against_reservations(db, res_id, t) ==
    IF res_id \notin DOMAIN db.reservations
    THEN Ret(db, FALSE, "Reservation not found")
    ELSE LET res == db.reservations[res_id] IN
    IF ~Truthy(res.room_number)
    THEN Ret(db, FALSE, "Assign a room first")
    ELSE LET v == is_valid_room_number(res.room_number) IN
    IF ~v.ok
    THEN Ret(db, FALSE, v.msg)
    ELSE IF \E o \in DOMAIN db.reservations :
                /\ o # res_id
                /\ db.reservations[o].room_number = v.result
                /\ db.reservations[o].arrival_date[1] < res.depart_date[1]
                /\ db.reservations[o].depart_date[1] > res.arrival_date[1]
    THEN Ret(db, FALSE, "Room occupied by")
    ELSE LET d1 == ensure_room_exists(db, v.result)
             d2 == InsertStay(d1, StayRow(res_id, v.result, "CHECKED_IN",
                                          res.arrival_date, res.depart_date,
                                          DateTimeText(t), NULLT))
             d3 == UpdateRoomStatus(d2, v.result, "OCCUPIED")
         IN  Ret(d3, TRUE, "Checked in successfully")

\* checkin_reservation
checkin_reservation(db, res_id, t) ==
    IF res_id \notin DOMAIN db.reservations
    THEN Ret(db, FALSE, "Reservation not found")
    ELSE LET res == db.reservations[res_id] IN
    IF ~Truthy(res.room_number)
    THEN Ret(db, FALSE, "Assign a room first")
    ELSE LET v == is_valid_room_number(res.room_number) IN
    IF ~v.ok
    THEN Ret(db, FALSE, v.msg)
    ELSE LET d1 == ensure_room_exists(db, v.result)
             d2 == InsertStay(d1, StayRow(res_id, v.result, "CHECKED_IN",
                                          res.arrival_date, res.depart_date,
                                          DateTimeText(t), NULLT))
             d3 == UpdateRoomStatus(d2, v.result, "OCCUPIED")
         IN  Ret(d3, TRUE, "Checked in successfully")

\* checkout_stay (the second definition in the class, which is the one bound)
checkout_stay(db, stay_id, t) ==
    IF stay_id \in DOMAIN db.stays
    THEN LET stay == db.stays[stay_id]
             d1 == UpdateStayStatus(db, stay_id, "CHECKED_OUT", DateTimeText(t))
             d2 == UpdateRoomStatus(d1, stay.room_number, "VACANT")
         IN  Ret(d2, TRUE, "Checked out successfully")
    ELSE IF stay_id \notin DOMAIN db.reservations
    THEN Ret(db, FALSE, "Reservation not found or no room assigned")
    ELSE LET res == db.reservations[stay_id] IN
    IF ~Truthy(res.room_number)
    THEN Ret(db, FALSE, "Reservation not found or no room assigned")
    ELSE LET d1 == InsertStay(db, StayRow(stay_id, res.room_number, "CHECKED_OUT",
                                          res.arrival_date, res.depart_date,
                                          DateTimeText(t), DateTimeText(t)))
             d2 == UpdateRoomStatus(d1, res.room_number, "VACANT")
         IN  Ret(d2, TRUE, "Checked out successfully")

\* a variant of cancel_checkin that deletes the stay and leaves the room alone
cancel_checkin_keeping_room(db, stay_id) ==
    IF stay_id \notin DOMAIN db.stays
    THEN Ret(db, FALSE, "Stay not found")
    ELSE Ret(DeleteStay(db, stay_id), TRUE, "Check-in cancelled successfully")

\* cancel_checkin
cancel_checkin(db, stay_id) ==
    IF stay_id \notin DOMAIN db.stays
    THEN Ret(db, FALSE, "Stay not found")
    ELSE LET stay == db.stays[stay_id]
             d1 == DeleteStay(db, stay_id)
             d2 == UpdateRoomStatus(d1, stay.room_number, "VACANT")
         IN  Ret(d2, TRUE, "Check-in cancelled successfully")

\* a variant of cancel_checkout without the test of the stay's status
cancel_checkout_any_status(db, stay_id) ==
    IF stay_id \notin DOMAIN db.stays
    THEN Ret(db, FALSE, "Stay not found")
    ELSE LET d1 == UpdateStayStatus(db, stay_id, "CHECKED_IN", NULLT)
             d2 == UpdateRoomStatus(d1, db.stays[stay_id].room_number, "OCCUPIED")
         IN  Ret(d2, TRUE, "Check-out cancelled")

\* a variant of cancel_checkout that does not clear checkout_actual
cancel_checkout_keeping_timestamp(db, stay_id) ==
    IF stay_id \notin DOMAIN db.stays
    THEN Ret(db, FALSE, "Stay not found")
    ELSE LET stay == db.stays[stay_id] IN
    IF stay.status # "CHECKED_OUT"
    THEN Ret(db, FALSE, "Not checked out")
    ELSE LET d1 == UpdateStayStatus(db, stay_id, "CHECKED_IN", stay.checkout_actual)
             d2 == UpdateRoomStatus(d1, stay.room_number, "OCCUPIED")
         IN  Ret(d2, TRUE, "Check-out cancelled")

\* cancel_checkout
cancel_checkout(db, stay_id) ==
    IF stay_id \notin DOMAIN db.stays
    THEN Ret(db, FALSE, "Stay not found")
    ELSE LET stay == db.stays[stay_id] IN
    IF stay.status # "CHECKED_OUT"
    THEN Ret(db, FALSE, "Not checked out")
    ELSE LET d1 == UpdateStayStatus(db, stay_id, "CHECKED_IN", NULLT)
             d2 == UpdateRoomStatus(d1, stay.room_number, "OCCUPIED")
         IN  Ret(d2, TRUE, "Check-out cancelled")

\* the rows of check_room_available_for_assignment's SELECT
AssignmentConflicts(db, rn, arrival_date, depart_date, exclude_reservation_id) ==
    { i \in DOMAIN db.reservations :
        /\ db.reservations[i].room_number = rn
        /\ TextLess(db.reservations[i].arrival_date, depart_date)
        /\ TextLess(arrival_date, db.reservations[i].depart_date)
        /\ i # exclude_reservation_id }

\* a variant of check_room_available_for_assignment that reports every room free
always_available(db, room_number, arrival_date, depart_date, exclude_reservation_id) ==
    [ok |-> TRUE, msg |-> Msg("")]

\* check_room_available_for_assignment: arrival_date and depart_date are the
\* isoformat() texts of the two dates; fetch_one takes the row of least rowid
check_room_available_for_assignment(db, room_number, arrival_date, depart_date, exclude_reservation_id) ==
    IF ~Truthy(room_number) \/ ~Truthy(strip(room_number))
    THEN [ok |-> TRUE, msg |-> Msg("")]
    ELSE LET f == PyFloatInt(room_number) IN
    IF ~f.ok
    THEN [ok |-> FALSE, msg |-> Msg("Invalid room number format")]
    ELSE LET rn == IntToStr(f.val)
             found == AssignmentConflicts(db, rn, arrival_date, depart_date, exclude_reservation_id)
         IN  IF found # {}
             THEN LET c == CHOOSE i \in found : \A j \in found : i <= j
                  IN  [ok |-> FALSE,
                       msg |-> [text |-> "Room occupied by", room |-> rn,
                                guest |-> db.reservations[c].guest_name,
                                resno |-> db.reservations[c].reservation_no,
                                until |-> NULLT]]
             ELSE [ok |-> TRUE, msg |-> Msg("")]

\* a variant of update_reservation_room that writes the text as typed,
\* stripped, instead of what is_valid_room_number returned
update_writing_typed_text(db, resid, room_number, t) ==
    IF ~Truthy(room_number) \/ ~Truthy(strip(room_number))
    THEN Ret(db, FALSE, "Room number cannot be empty")
    ELSE LET v == is_valid_room_number(room_number) IN
    IF ~v.ok
    THEN Ret(db, FALSE, v.msg)
    ELSE IF resid \notin DOMAIN db.reservations
    THEN Ret(db, FALSE, "Reservation not found")
    ELSE LET res == db.reservations[resid]
             a == check_room_available_for_assignment(db, v.result, IsoDate(res.arrival_date),
                                                      IsoDate(res.depart_date), resid)
         IN  IF ~a.ok
             THEN [db |-> db, ok |-> FALSE, msg |-> a.msg]
             ELSE [db |-> UpdateReservationRoom(db, resid, strip(room_number), t), ok |-> TRUE,
                   msg |-> [text |-> "Room assigned successfully", room |-> v.result,
                            guest |-> NULL, resno |-> NULL, until |-> NULLT]]

\* update_reservation_room
update_reservation_room(db, resid, room_number, t) ==
    IF ~Truthy(room_number) \/ ~Truthy(strip(room_number))
    THEN Ret(db, FALSE, "Room number cannot be empty")
    ELSE LET v == is_valid_room_number(room_number) IN
    IF ~v.ok
    THEN Ret(db, FALSE, v.msg)
    ELSE IF resid \notin DOMAIN db.reservations
    THEN Ret(db, FALSE, "Reservation not found")
    ELSE LET res == db.reservations[resid]
             arr == IsoDate(res.arrival_date)
             dep == IsoDate(res.depart_date)
             a == check_room_available_for_assignment(db, v.result, arr, dep, resid)
         IN  IF ~a.ok
             THEN [db |-> db, ok |-> FALSE, msg |-> a.msg]
             ELSE [db |-> UpdateReservationRoom(db, resid, v.result, t), ok |-> TRUE,
                   msg |-> [text |-> "Room assigned successfully", room |-> v.result,
                            guest |-> NULL, resno |-> NULL, until |-> NULLT]]

\* SELECT DISTINCT room_number FROM stays WHERE status = 'CHECKED_IN'
CheckedInRooms(db) ==
    { db.stays[i].room_number : i \in { j \in DOMAIN db.stays : db.stays[j].status = "CHECKED_IN" } }

\* the loop of sync_room_status_from_stays over the rows it fetched
RECURSIVE MarkOccupied(_, _)
MarkOccupied(db, occupied) ==
    IF occupied = {} THEN db
    ELSE LET r == CHOOSE x \in occupied : TRUE
         IN  MarkOccupied(UpdateRoomStatus(db, r, "OCCUPIED"), occupied \ {r})

\* a variant of sync_room_status_from_stays without its first statement
sync_without_reset(db) == MarkOccupied(db, CheckedInRooms(db))

\* sync_room_status_from_stays
sync_room_status_from_stays(db) ==
    LET d1 == UpdateAllRooms(db, "VACANT")
        occupied == CheckedInRooms(d1)
    IN  MarkOccupied(d1, occupied)

\* SQLite's date(a) = date(b): false when either side is NULL
SameDate(a, b) == a # NULLT /\ b # NULLT /\ SqlDate(a) = SqlDate(b)

\* SQLite's date(a) <= date(b): false when either side is NULL
DateLeq(a, b) == a # NULLT /\ b # NULLT /\ a[1] <= b[1]

\* The date-scoped lists.  Each is one SELECT through fetch_all; a list is
\* modelled as the set of its rows, a row named by its id column (r.id for
\* a reservation, s.id for a stay), and d is the day of d.isoformat().
\* The ORDER BY clauses arrange the rows and are not modelled.

\* a variant of get_arrivals_for_date whose subquery looks for CHECKED_IN only
arrivals_without_checked_in(db, d) ==
    { r \in DOMAIN db.reservations :
        /\ SameDate(db.reservations[r].arrival_date, DateText(d))
        /\ ~\E s \in DOMAIN db.stays :
               /\ db.stays[s].reservation_id = r
               /\ db.stays[s].status = "CHECKED_IN" }

\* get_arrivals_for_date
get_arrivals_for_date(db, d) ==
    { r \in DOMAIN db.reservations :
        /\ SameDate(db.reservations[r].arrival_date, DateText(d))
        /\ ~\E s \in DOMAIN db.stays :
               /\ db.stays[s].reservation_id = r
               /\ db.stays[s].status \in {"CHECKED_IN", "CHECKED_OUT"} }

\* FROM stays s JOIN reservations r ON r.id = s.reservation_id
JoinedStays(db) == { s \in DOMAIN db.stays : db.stays[s].reservation_id \in DOMAIN db.reservations }

\* get_inhouse, called with a target date (without one it takes date.today())
get_inhouse(db, d) ==
    { s \in JoinedStays(db) :
        /\ db.stays[s].status = "CHECKED_IN"
        /\ DateLeq(db.stays[s].checkin_planned, DateText(d))
        /\ DateLeq(DateText(d), db.stays[s].checkout_planned) }

\* a variant of get_departures_for_date that keeps the rows it returned for
\* a date and returns them again when asked for the same date
departures_cached(db, d) ==
    LET earlier == { k \in 1..Len(calls) : calls[k].op = "departures_for" /\ calls[k].arg = d }
    IN  IF earlier # {}
        THEN calls[CHOOSE k \in earlier : TRUE].rows
        ELSE { s \in JoinedStays(db) :
                 /\ db.stays[s].status = "CHECKED_IN"
                 /\ SameDate(db.stays[s].checkout_planned, DateText(d)) }

\* get_departures_for_date
get_departures_for_date(db, d) ==
    { s \in JoinedStays(db) :
        /\ db.stays[s].status = "CHECKED_IN"
        /\ SameDate(db.stays[s].checkout_planned, DateText(d)) }

\* get_checked_out_for_date
get_checked_out_for_date(db, d) ==
    { s \in JoinedStays(db) :
        /\ db.stays[s].status = "CHECKED_OUT"
        /\ SameDate(db.stays[s].checkout_actual, DateText(d)) }

\* seed_rooms_from_blocks: the two loops run inside one transaction
seed_rooms_from_blocks(db) == InsertRoomsIgnore(db, BlockRooms)

-----------------------------------------------------------------------------
(* The state after construction, and one action per call of the engine.    *)

ResIds == 1..NRes

Days == 1..MaxDay

R105 == <<"1", "0", "5">>
R106 == <<"1", "0", "6">>
R105F == <<"1", "0", "5", ".", "0">>
R210 == <<"2", "1", "0">>
\* room 106 written with a blank and a leading zero
R106Padded == <<" ", "0", "1", "0", "6">>

\* room numbers the imported sheet carries: none, a room of the inventory,
\* and a number that lies in no block
ImportRooms == {NULL, R105, R210}

\* text a clerk types into the room field: room 106 with a blank and a
\* leading zero, a fractional number, a number in no block, nothing
TypedRooms == {R106Padded, R105F, R210, <<>>}

GuestName(i) == <<"G">> \o NatToStr(i)

ReservationNo(i) == NatToStr(i)

\* updated_at of an imported row: the column's default, datetime('now') at
\* the import, which ran before the front desk's day 1
ImportedAt == DateTimeText(0)

\* rows build_reservations_from_df stores for reservation i: both dates
\* present, as datetime text, the room as the sheet has it
ImportedRows(i) ==
    { [arrival_date |-> DateTimeText(a), depart_date |-> DateTimeText(d),
       room_number |-> r, guest_name |-> GuestName(i), reservation_no |-> ReservationNo(i),
       updated_at |-> ImportedAt] :
      a \in Days, d \in Days, r \in ImportRooms }

\* the rows of a validated booking: arrival before departure
BookedRows(i) ==
    { row \in ImportedRows(i) : row.arrival_date[1] < row.depart_date[1] }

\* FrontOfficeDB.__init__ on a fresh file: the tables are created, the
\* arrivals are imported, the rooms are seeded and synchronised
Init ==
    /\ reservations \in { f \in [ResIds -> UNION { BookedRows(i) : i \in ResIds }] :
                            \A i \in ResIds : f[i] \in BookedRows(i) }
    /\ stays = <<>>
    /\ rooms = [r \in BlockRooms |-> "VACANT"]
    /\ seq = 0
    /\ now = 1
    /\ calls = <<>>
    /\ pcs = <<>>

\* the database a handler leaves when it returns (True, message)
Apply(ret) ==
    /\ ret.ok
    /\ ret.db.seq <= MaxStays
    /\ reservations' = ret.db.reservations
    /\ stays' = ret.db.stays
    /\ rooms' = ret.db.rooms
    /\ seq' = ret.db.seq

\* identifiers a caller may pass: every reservation id, every stay id, and one more
AnyId == 1..((IF NRes > MaxStays THEN NRes ELSE MaxStays) + 1)

\* A call that returns (False, reason) has written nothing: it is a
\* stuttering step, and the actions below are the calls that succeed.

CheckIn ==
    /\ \E r \in AnyId :
        Apply(checkin_reservation(DB, r, now))
    /\ UNCHANGED <<now, calls, pcs>>

CheckOut ==
    /\ \E s \in AnyId :
        Apply(checkout_stay(DB, s, now))
    /\ UNCHANGED <<now, calls, pcs>>

CancelCheckIn ==
    /\ \E s \in AnyId :
        Apply(cancel_checkin(DB, s))
    /\ UNCHANGED <<now, calls, pcs>>

CancelCheckOut ==
    /\ \E s \in AnyId :
        Apply(cancel_checkout(DB, s))
    /\ UNCHANGED <<now, calls, pcs>>

AssignRoom ==
    /\ \E r \in AnyId, raw \in TypedRooms :
        Apply(update_reservation_room(DB, r, raw, now))
    /\ UNCHANGED <<now, calls, pcs>>

Resync ==
    /\ Apply(Ret(sync_room_status_from_stays(DB), TRUE, ""))
    /\ UNCHANGED <<now, calls, pcs>>

Seed ==
    /\ Apply(Ret(seed_rooms_from_blocks(DB), TRUE, ""))
    /\ UNCHANGED <<now, calls, pcs>>

Next ==
    \/ CheckIn
    \/ CheckOut
    \/ CancelCheckIn
    \/ CancelCheckOut
    \/ AssignRoom
    \/ Resync
    \/ Seed

Spec == Init /\ [][Next]_vars

-----------------------------------------------------------------------------
(* A database file put in place by the admin page (Replace Entire          *)
(* Database) and opened by FrontOfficeDB.__init__: the reservations table  *)
(* is not empty, so nothing is imported, seeded or synchronised, and the   *)
(* rooms and stays tables are whatever the file holds.  Every call made on *)
(* it is recorded with the database it found and what it returned.         *)

RoomStatuses == {"VACANT", "OCCUPIED"}

\* rooms whose row the file may hold, with either status
LoadedRoomNumbers == {R105, R106}

LoadedRoomTables == UNION { [S -> RoomStatuses] : S \in SUBSET LoadedRoomNumbers }

\* room texts a file's reservations carry: those of the import, a number
\* stored with a fraction, and one stored with a blank and a leading zero
LoadedReservationRooms == ImportRooms \cup {R105F, R106Padded}

\* the first reservation's room varies; the others hold room 105
LoadedReservations ==
    { [i \in ResIds |->
          [arrival_date |-> DateTimeText(1), depart_date |-> DateTimeText(2),
           room_number |-> IF i = 1 THEN room ELSE R105, guest_name |-> GuestName(i),
           reservation_no |-> ReservationNo(i), updated_at |-> ImportedAt]] :
      room \in LoadedReservationRooms }

\* the stays rows the file may hold for the reservations res
LoadedStayRows(res) ==
    { StayRow(i, room, status, res[i].arrival_date, res[i].depart_date,
              DateTimeText(1),
              IF status = "CHECKED_OUT" THEN DateTimeText(1) ELSE NULLT) :
      i \in ResIds, room \in LoadedRoomNumbers, status \in {"CHECKED_IN", "CHECKED_OUT"} }

LoadedStayTables(res) ==
    UNION { [1..n -> LoadedStayRows(res)] : n \in 0..MaxLoaded }

InitLoaded ==
    /\ reservations \in LoadedReservations
    /\ stays \in LoadedStayTables(reservations)
    /\ rooms \in LoadedRoomTables
    /\ seq = Cardinality(DOMAIN stays)
    /\ now = 1
    /\ calls = <<>>
    /\ pcs = <<>>

\* a call and its return value, appended to the history
Record(op, arg, ret) ==
    /\ Len(calls) < MaxCalls
    /\ reservations' = ret.db.reservations
    /\ stays' = ret.db.stays
    /\ rooms' = ret.db.rooms
    /\ seq' = ret.db.seq
    /\ calls' = Append(calls, [op |-> op, arg |-> arg, ok |-> ret.ok,
                               text |-> ret.msg.text, pre |-> DB])
    /\ UNCHANGED <<now, pcs>>

LoadedCheckIn ==
    \E r \in AnyId : Record("check_in", r, checkin_reservation(DB, r, now))

LoadedCancelCheckIn ==
    \E s \in AnyId : Record("cancel_check_in", s, cancel_checkin(DB, s))

LoadedCancelCheckOut ==
    \E s \in AnyId : Record("cancel_check_out", s, cancel_checkout(DB, s))

LoadedResync ==
    Record("resync", 0, Ret(sync_room_status_from_stays(DB), TRUE, ""))

LoadedSeed ==
    Record("seed", 0, Ret(seed_rooms_from_blocks(DB), TRUE, ""))

NextLoaded ==
    \/ LoadedCheckIn
    \/ LoadedCancelCheckIn
    \/ LoadedCancelCheckOut
    \/ LoadedResync
    \/ LoadedSeed

SpecLoaded == InitLoaded /\ [][NextLoaded]_vars

\* the database the k-th recorded call left
Post(k) == IF k = Len(calls) THEN DB ELSE calls[k + 1].pre

-----------------------------------------------------------------------------
(* Sessions that check in or assign rooms at the same time.  Each session  *)
(* runs the script in its own thread; every fetch_one, execute and         *)
(* connection block of checkin_reservation and update_reservation_room     *)
(* opens its own connection and commits, so the statements of two calls    *)
(* interleave one by one.                                                  *)

Clients == 1..NClients

Idle == [pc |-> "idle", op |-> "", res_id |-> 0, raw |-> NULL, room |-> NULL,
         arr |-> NULLT, dep |-> NULLT, ok |-> FALSE, text |-> "", raced |-> FALSE,
         stay_id |-> 0, occupied |-> {}]

Running(c) == pcs[c].pc \notin {"idle", "done"}

InitConc ==
    /\ reservations \in { f \in [ResIds -> UNION { BookedRows(i) : i \in ResIds }] :
                            \A i \in ResIds : f[i] \in BookedRows(i) }
    /\ stays = <<>>
    /\ rooms = [r \in BlockRooms |-> "VACANT"]
    /\ seq = 0
    /\ now = 1
    /\ calls = <<>>
    /\ pcs = [c \in Clients |-> Idle]

\* a session clicks Check-in on reservation r; raced records that another
\* call was running at that moment
ConcCall(c) ==
    /\ pcs[c].pc = "idle"
    /\ \E r \in AnyId :
        pcs' = [d \in Clients |->
                  IF d = c
                  THEN [pcs[c] EXCEPT !.pc = "fetch", !.op = "check_in", !.res_id = r,
                                      !.raced = \E e \in Clients : e # c /\ Running(e)]
                  ELSE IF Running(d) THEN [pcs[d] EXCEPT !.raced = TRUE] ELSE pcs[d]]
    /\ UNCHANGED <<db_vars, now, calls>>

\* res = fetch_one(...) and the three early returns
ConcFetch(c) ==
    /\ pcs[c].pc = "fetch"
    /\ LET r == pcs[c].res_id
           Fail(text) == [pcs EXCEPT ![c].pc = "done", ![c].ok = FALSE, ![c].text = text]
       IN  IF r \notin DOMAIN reservations
           THEN pcs' = Fail("Reservation not found")
           ELSE IF ~Truthy(reservations[r].room_number)
           THEN pcs' = Fail("Assign a room first")
           ELSE LET v == is_valid_room_number(reservations[r].room_number) IN
                IF ~v.ok
                THEN pcs' = Fail(v.msg)
                ELSE pcs' = [pcs EXCEPT ![c].pc = "ensure", ![c].room = v.result,
                                        ![c].arr = reservations[r].arrival_date,
                                        ![c].dep = reservations[r].depart_date]
    /\ UNCHANGED <<db_vars, now, calls>>

\* the database a statement of a session leaves
Commit(db) ==
    /\ reservations' = db.reservations
    /\ stays' = db.stays
    /\ rooms' = db.rooms
    /\ seq' = db.seq

\* self.ensure_room_exists(result)
ConcEnsure(c) ==
    /\ pcs[c].pc = "ensure"
    /\ Commit(ensure_room_exists(DB, pcs[c].room))
    /\ pcs' = [pcs EXCEPT ![c].pc = "insert"]
    /\ UNCHANGED <<now, calls>>

\* INSERT INTO stays ... 'CHECKED_IN' ... CURRENT_TIMESTAMP
ConcInsert(c) ==
    /\ pcs[c].pc = "insert"
    /\ Commit(InsertStay(DB, StayRow(pcs[c].res_id, pcs[c].room, "CHECKED_IN",
                                     pcs[c].arr, pcs[c].dep, DateTimeText(now), NULLT)))
    /\ pcs' = [pcs EXCEPT ![c].pc = "update"]
    /\ UNCHANGED <<now, calls>>

\* UPDATE rooms SET status = 'OCCUPIED' ...; return True, "Checked in successfully"
ConcUpdate(c) ==
    /\ pcs[c].pc = "update"
    /\ Commit(UpdateRoomStatus(DB, pcs[c].room, "OCCUPIED"))
    /\ pcs' = [pcs EXCEPT ![c].pc = "done", ![c].ok = TRUE,
                          ![c].text = "Checked in successfully"]
    /\ UNCHANGED <<now, calls>>

\* what the sessions type into the room field
ConcTexts == {R106Padded, R210}

\* a session clicks Save Room on reservation r with the text raw
ConcAssignCall(c) ==
    /\ pcs[c].pc = "idle"
    /\ \E r \in ResIds, raw \in ConcTexts :
        pcs' = [d \in Clients |->
                  IF d = c
                  THEN [pcs[c] EXCEPT !.pc = "a_read", !.op = "assign_room",
                                      !.res_id = r, !.raw = raw,
                                      !.raced = \E e \in Clients : e # c /\ Running(e)]
                  ELSE IF Running(d) THEN [pcs[d] EXCEPT !.raced = TRUE] ELSE pcs[d]]
    /\ UNCHANGED <<db_vars, now, calls>>

\* the two early returns on the text, then SELECT arrival_date, depart_date
ConcAssignRead(c) ==
    /\ pcs[c].pc = "a_read"
    /\ LET r == pcs[c].res_id
           raw == pcs[c].raw
           Fail(text) == [pcs EXCEPT ![c].pc = "done", ![c].ok = FALSE, ![c].text = text]
       IN  IF ~Truthy(raw) \/ ~Truthy(strip(raw))
           THEN pcs' = Fail("Room number cannot be empty")
           ELSE LET v == is_valid_room_number(raw) IN
                IF ~v.ok
                THEN pcs' = Fail(v.msg)
                ELSE IF r \notin DOMAIN reservations
                THEN pcs' = Fail("Reservation not found")
                ELSE pcs' = [pcs EXCEPT ![c].pc = "a_check", ![c].room = v.result,
                                        ![c].arr = IsoDate(reservations[r].arrival_date),
                                        ![c].dep = IsoDate(reservations[r].depart_date)]
    /\ UNCHANGED <<db_vars, now, calls>>

\* available, msg = self.check_room_available_for_assignment(result, arr, dep, resid)
ConcAssignCheck(c) ==
    /\ pcs[c].pc = "a_check"
    /\ LET a == check_room_available_for_assignment(DB, pcs[c].room, pcs[c].arr,
                                                    pcs[c].dep, pcs[c].res_id)
       IN  IF ~a.ok
           THEN pcs' = [pcs EXCEPT ![c].pc = "done", ![c].ok = FALSE, ![c].text = a.msg.text]
           ELSE pcs' = [pcs EXCEPT ![c].pc = "a_write"]
    /\ UNCHANGED <<db_vars, now, calls>>

\* UPDATE reservations SET room_number = ? ...; return True
ConcAssignWrite(c) ==
    /\ pcs[c].pc = "a_write"
    /\ Commit(UpdateReservationRoom(DB, pcs[c].res_id, pcs[c].room, now))
    /\ pcs' = [pcs EXCEPT ![c].pc = "done", ![c].ok = TRUE,
                          ![c].text = "Room assigned successfully"]
    /\ UNCHANGED <<now, calls>>

NextConc ==
    \E c \in Clients :
        \/ ConcCall(c)
        \/ ConcFetch(c)
        \/ ConcEnsure(c)
        \/ ConcInsert(c)
        \/ ConcUpdate(c)
        \/ ConcAssignCall(c)
        \/ ConcAssignRead(c)
        \/ ConcAssignCheck(c)
        \/ ConcAssignWrite(c)

SpecConc == InitConc /\ [][NextConc]_vars

-----------------------------------------------------------------------------
(* resync run by one session while another checks a guest in or out or     *)
(* cancels a check-in.  sync_room_status_from_stays, checkout_stay and      *)
(* cancel_checkin issue their statements through execute and fetch_one,    *)
(* which commit one by one.  One guest may have been checked in before the *)
(* sessions start.                                                         *)

\* session c starts a call as rec; raced records that another call was running
Begin(c, rec) ==
    pcs' = [d \in Clients |->
              IF d = c
              THEN [rec EXCEPT !.raced = \E e \in Clients : e # c /\ Running(e)]
              ELSE IF Running(d) THEN [pcs[d] EXCEPT !.raced = TRUE] ELSE pcs[d]]

\* a check-in made while no session runs and nobody is in house
SyncArrive ==
    /\ \A c \in Clients : pcs[c].pc = "idle"
    /\ stays = <<>>
    /\ \E r \in ResIds : Apply(checkin_reservation(DB, r, now))
    /\ UNCHANGED <<now, calls, pcs>>

\* a session calls sync_room_status_from_stays
SyncCall(c) ==
    /\ pcs[c].pc = "idle"
    /\ Begin(c, [pcs[c] EXCEPT !.pc = "s_reset", !.op = "resync"])
    /\ UNCHANGED <<db_vars, now, calls>>

\* UPDATE rooms SET status = 'VACANT'
SyncReset(c) ==
    /\ pcs[c].pc = "s_reset"
    /\ Commit(UpdateAllRooms(DB, "VACANT"))
    /\ pcs' = [pcs EXCEPT ![c].pc = "s_read"]
    /\ UNCHANGED <<now, calls>>

\* occupied = fetch_all(SELECT DISTINCT room_number FROM stays WHERE status = 'CHECKED_IN')
SyncRead(c) ==
    /\ pcs[c].pc = "s_read"
    /\ pcs' = [pcs EXCEPT ![c].pc = "s_mark", ![c].occupied = CheckedInRooms(DB)]
    /\ UNCHANGED <<db_vars, now, calls>>

\* one turn of the loop: UPDATE rooms SET status = 'OCCUPIED' WHERE
\* room_number = ?, or the return when no row is left
SyncMark(c) ==
    /\ pcs[c].pc = "s_mark"
    /\ IF pcs[c].occupied = {}
       THEN /\ pcs' = [pcs EXCEPT ![c].pc = "done", ![c].ok = TRUE]
            /\ UNCHANGED db_vars
       ELSE \E r \in pcs[c].occupied :
               /\ Commit(UpdateRoomStatus(DB, r, "OCCUPIED"))
               /\ pcs' = [pcs EXCEPT ![c].occupied = pcs[c].occupied \ {r}]
    /\ UNCHANGED <<now, calls>>

\* a session calls checkout_stay(s)
OutCall(c) ==
    /\ pcs[c].pc = "idle"
    /\ \E s \in ResIds :
        Begin(c, [pcs[c] EXCEPT !.pc = "o_fetch", !.op = "check_out", !.stay_id = s])
    /\ UNCHANGED <<db_vars, now, calls>>

\* stay = fetch_one(SELECT * FROM stays WHERE id = ?)
OutFetch(c) ==
    /\ pcs[c].pc = "o_fetch"
    /\ IF pcs[c].stay_id \in DOMAIN stays
       THEN pcs' = [pcs EXCEPT ![c].pc = "o_stay", ![c].room = stays[pcs[c].stay_id].room_number]
       ELSE pcs' = [pcs EXCEPT ![c].pc = "o_res"]
    /\ UNCHANGED <<db_vars, now, calls>>

\* UPDATE stays SET status = 'CHECKED_OUT', checkout_actual = datetime('now')
OutStay(c) ==
    /\ pcs[c].pc = "o_stay"
    /\ Commit(UpdateStayStatus(DB, pcs[c].stay_id, "CHECKED_OUT", DateTimeText(now)))
    /\ pcs' = [pcs EXCEPT ![c].pc = "o_room"]
    /\ UNCHANGED <<now, calls>>

\* res = fetch_one(SELECT * FROM reservations WHERE id = ?) and the early return
OutReservation(c) ==
    /\ pcs[c].pc = "o_res"
    /\ LET r == pcs[c].stay_id
       IN  IF r \notin DOMAIN reservations \/ ~Truthy(reservations[r].room_number)
           THEN pcs' = [pcs EXCEPT ![c].pc = "done", ![c].ok = FALSE,
                                   ![c].text = "Reservation not found or no room assigned"]
           ELSE pcs' = [pcs EXCEPT ![c].pc = "o_insert", ![c].res_id = r,
                                   ![c].room = reservations[r].room_number,
                                   ![c].arr = reservations[r].arrival_date,
                                   ![c].dep = reservations[r].depart_date]
    /\ UNCHANGED <<db_vars, now, calls>>

\* INSERT INTO stays ... 'CHECKED_OUT' ... CURRENT_TIMESTAMP, CURRENT_TIMESTAMP
OutInsert(c) ==
    /\ pcs[c].pc = "o_insert"
    /\ seq < MaxStays
    /\ Commit(InsertStay(DB, StayRow(pcs[c].res_id, pcs[c].room, "CHECKED_OUT",
                                     pcs[c].arr, pcs[c].dep,
                                     DateTimeText(now), DateTimeText(now))))
    /\ pcs' = [pcs EXCEPT ![c].pc = "o_room"]
    /\ UNCHANGED <<now, calls>>

\* UPDATE rooms SET status = 'VACANT' ...; return True, "Checked out successfully"
OutRoom(c) ==
    /\ pcs[c].pc = "o_room"
    /\ Commit(UpdateRoomStatus(DB, pcs[c].room, "VACANT"))
    /\ pcs' = [pcs EXCEPT ![c].pc = "done", ![c].ok = TRUE,
                          ![c].text = "Checked out successfully"]
    /\ UNCHANGED <<now, calls>>

\* a session calls cancel_checkin(s)
CancelCall(c) ==
    /\ pcs[c].pc = "idle"
    /\ \E s \in ResIds :
        Begin(c, [pcs[c] EXCEPT !.pc = "c_fetch", !.op = "cancel_check_in", !.stay_id = s])
    /\ UNCHANGED <<db_vars, now, calls>>

\* stay = fetch_one(SELECT * FROM stays WHERE id = ?) and the early return
CancelFetch(c) ==
    /\ pcs[c].pc = "c_fetch"
    /\ IF pcs[c].stay_id \in DOMAIN stays
       THEN pcs' = [pcs EXCEPT ![c].pc = "c_delete", ![c].room = stays[pcs[c].stay_id].room_number]
       ELSE pcs' = [pcs EXCEPT ![c].pc = "done", ![c].ok = FALSE, ![c].text = "Stay not found"]
    /\ UNCHANGED <<db_vars, now, calls>>

\* DELETE FROM stays WHERE id = ?
CancelDelete(c) ==
    /\ pcs[c].pc = "c_delete"
    /\ Commit(IF pcs[c].stay_id \in DOMAIN stays THEN DeleteStay(DB, pcs[c].stay_id) ELSE DB)
    /\ pcs' = [pcs EXCEPT ![c].pc = "c_room"]
    /\ UNCHANGED <<now, calls>>

\* UPDATE rooms SET status = 'VACANT' ...; return True, "Check-in cancelled successfully"
CancelRoom(c) ==
    /\ pcs[c].pc = "c_room"
    /\ Commit(UpdateRoomStatus(DB, pcs[c].room, "VACANT"))
    /\ pcs' = [pcs EXCEPT ![c].pc = "done", ![c].ok = TRUE,
                          ![c].text = "Check-in cancelled successfully"]
    /\ UNCHANGED <<now, calls>>

NextSync ==
    \/ SyncArrive
    \/ \E c \in Clients :
        \/ SyncCall(c)
        \/ SyncReset(c)
        \/ SyncRead(c)
        \/ SyncMark(c)
        \/ ConcCall(c)
        \/ ConcFetch(c)
        \/ ConcEnsure(c)
        \/ ConcInsert(c)
        \/ ConcUpdate(c)
        \/ OutCall(c)
        \/ OutFetch(c)
        \/ OutStay(c)
        \/ OutReservation(c)
        \/ OutInsert(c)
        \/ OutRoom(c)
        \/ CancelCall(c)
        \/ CancelFetch(c)
        \/ CancelDelete(c)
        \/ CancelRoom(c)

SpecSync == InitConc /\ [][NextSync]_vars

-----------------------------------------------------------------------------
(* is_valid_room_number applied to the text of the room field.  int() is   *)
(* modelled on blanks, signs, digits, the point and letters.               *)

RoomChars == {"0", "1", "5", ".", " ", "+", "-", "a"}

\* every text of at most MaxLen of these characters
ShortTexts == UNION { [1..n -> RoomChars] : n \in 0..MaxLen }

\* longer texts: ends and neighbours of blocks, padded, signed and fractional numbers
ListedTexts ==
    { R105F, R210, R106, NULL,
      <<"1", "1", "6">>, <<"9", "9">>, <<"3", "1", "3">>, <<"3", "1", "4">>,
      <<"1", "0", "0", "0">>, <<"1", "0", "1", "0">>, <<"1", "7", "0", "5">>,
      <<"1", "7", "0", "6">>, <<"0", "1", "0", "5">>, <<" ", "0", "1", "0", "6">>,
      <<"1", "0", "5", " ">>, <<"+", "1", "0", "5">>, <<"-", "1", "0", "5">>,
      <<"1", "0", " ", "5">>, <<"1", "0", "5", ".">>, <<"1", "e", "2">> }

RoomTexts == ShortTexts \cup ListedTexts

InitValidate ==
    /\ reservations = <<>>
    /\ stays = <<>>
    /\ rooms = [r \in BlockRooms |-> "VACANT"]
    /\ seq = 0
    /\ now = 1
    /\ calls = <<>>
    /\ pcs = <<>>

ValidateRoom ==
    /\ calls = <<>>
    /\ \E raw \in RoomTexts :
        calls' = <<[op |-> "validate", arg |-> raw, ret |-> is_valid_room_number(raw)]>>
    /\ UNCHANGED <<db_vars, now, pcs>>

NextValidate == ValidateRoom

SpecValidate == InitValidate /\ [][NextValidate]_vars

-----------------------------------------------------------------------------
(* Room assignment on the imported reservations, every call recorded with  *)
(* the database it found and what it returned.                             *)

\* what is typed into the room field: the texts above and plain 105
AssignTexts == TypedRooms \cup {R105}

AssignCall ==
    \E r \in AnyId, raw \in AssignTexts :
        Record("assign_room", <<r, raw>>, update_reservation_room(DB, r, raw, now))

NextAssign == AssignCall

SpecAssign == Init /\ [][NextAssign]_vars

-----------------------------------------------------------------------------
(* The import as the code makes it: build_reservations_from_df drops the   *)
(* rows that lack a date and keeps every other row, whatever the order of  *)
(* its two dates.  The first reservation is any such row, the others are   *)
(* bookings; check_in and assign_room are recorded as above.               *)

InitImported ==
    /\ reservations \in { f \in [ResIds -> UNION { ImportedRows(i) : i \in ResIds }] :
                            /\ f[1] \in ImportedRows(1)
                            /\ \A i \in ResIds \ {1} : f[i] \in BookedRows(i) }
    /\ stays = <<>>
    /\ rooms = [r \in BlockRooms |-> "VACANT"]
    /\ seq = 0
    /\ now = 1
    /\ calls = <<>>
    /\ pcs = <<>>

NextImported ==
    \/ LoadedCheckIn
    \/ AssignCall

SpecImported == InitImported /\ [][NextImported]_vars

-----------------------------------------------------------------------------
(* The front-desk pages: the calls that succeed and the date-scoped lists  *)
(* the pages fetch, each recorded with the database it found and, for a    *)
(* list, the rows it returned.                                             *)

\* a call appended to the history of the pages
RecordPage(op, arg, db, rows) ==
    /\ Len(calls) < MaxViewCalls
    /\ db.seq <= MaxStays
    /\ reservations' = db.reservations
    /\ stays' = db.stays
    /\ rooms' = db.rooms
    /\ seq' = db.seq
    /\ calls' = Append(calls, [op |-> op, arg |-> arg, ok |-> TRUE, rows |-> rows, pre |-> DB])
    /\ UNCHANGED <<now, pcs>>

\* a handler's call that returned (True, message)
RecordOk(op, arg, ret) == ret.ok /\ RecordPage(op, arg, ret.db, {})

PageCheckIn ==
    \E r \in AnyId : RecordOk("check_in", r, checkin_reservation(DB, r, now))

PageCheckOut ==
    \E s \in AnyId : RecordOk("check_out", s, checkout_stay(DB, s, now))

PageCancelCheckIn ==
    \E s \in AnyId : RecordOk("cancel_check_in", s, cancel_checkin(DB, s))

PageCancelCheckOut ==
    \E s \in AnyId : RecordOk("cancel_check_out", s, cancel_checkout(DB, s))

PageArrivals ==
    \E d \in Days : RecordPage("arrivals_for", d, DB, get_arrivals_for_date(DB, d))

PageInHouse ==
    \E d \in Days : RecordPage("in_house_for", d, DB, get_inhouse(DB, d))

PageDepartures ==
    \E d \in Days : RecordPage("departures_for", d, DB, get_departures_for_date(DB, d))

PageCheckedOut ==
    \E d \in Days : RecordPage("checked_out_for", d, DB, get_checked_out_for_date(DB, d))

NextViews ==
    \/ PageCheckIn
    \/ PageCheckOut
    \/ PageCancelCheckIn
    \/ PageCancelCheckOut
    \/ PageArrivals
    \/ PageInHouse
    \/ PageDepartures
    \/ PageCheckedOut

SpecViews == Init /\ [][NextViews]_vars

-----------------------------------------------------------------------------
(* Vocabulary of the properties.                                           *)

Day(t) == t[1]

CheckedIn(st) == { i \in DOMAIN st : st[i].status = "CHECKED_IN" }

\* the half-open planned intervals [checkin_planned, checkout_planned) of two stays meet
PlannedOverlap(a, b) ==
    /\ Day(a.checkin_planned) < Day(b.checkout_planned)
    /\ Day(b.checkin_planned) < Day(a.checkout_planned)

\* a CHECKED_IN stay of another reservation holds the room over days that
\* meet the reservation's [arrival, departure)
BlockingStays(db, res_id, room) ==
    { i \in CheckedIn(db.stays) :
        /\ db.stays[i].reservation_id # res_id
        /\ db.stays[i].room_number = room
        /\ Day(db.stays[i].checkin_planned) < Day(db.reservations[res_id].depart_date)
        /\ Day(db.stays[i].checkout_planned) > Day(db.reservations[res_id].arrival_date) }

\* the room's status is the one derived from the stays that reference it
Derived(db, r) ==
    db.rooms[r] = (IF \E i \in CheckedIn(db.stays) : db.stays[i].room_number = r
                   THEN "OCCUPIED" ELSE "VACANT")

-----------------------------------------------------------------------------
(* Properties.                                                             *)

\* C1: in every reachable state no two CHECKED_IN stays on the same room
\* number have overlapping half-open planned intervals.
C1_NoDoubleOccupancy ==
    \A i \in CheckedIn(stays), j \in CheckedIn(stays) :
        (i # j /\ stays[i].room_number = stays[j].room_number)
            => ~PlannedOverlap(stays[i], stays[j])

\* C3: check_in on a reservation with a valid room fails, and creates no
\* stay, whenever another reservation's CHECKED_IN stay on that room meets
\* its interval; it succeeds when there is no such stay.
C3_CheckInHonoursConflicts ==
    \A r \in ResIds :
        LET v == is_valid_room_number(reservations[r].room_number)
            ret == checkin_reservation(DB, r, now)
        IN  (Truthy(reservations[r].room_number) /\ v.ok) =>
                IF BlockingStays(DB, r, v.result) # {}
                THEN ~ret.ok /\ ret.db.stays = stays
                ELSE ret.ok

\* C4: after every completed operation each room of the inventory is
\* OCCUPIED exactly when a CHECKED_IN stay references its number.
C4_StatusIsDerived ==
    \A r \in DOMAIN rooms : Derived(DB, r)

\* C5: every reservation is referenced by at most one CHECKED_IN stay.
C5_OneActiveStayPerReservation ==
    \A i \in CheckedIn(stays), j \in CheckedIn(stays) :
        stays[i].reservation_id = stays[j].reservation_id => i = j

\* C10: check_out of a CHECKED_IN stay followed at once by cancel_check_out
\* of the same stay gives the stay back as it was (CHECKED_IN, no
\* checkout_actual, same room, planned dates and checkin_actual) and leaves
\* the room's status OCCUPIED.
C10_CheckOutThenCancelRestores ==
    \A s \in CheckedIn(stays) :
        LET a == checkout_stay(DB, s, now)
            c == cancel_checkout(a.db, s)
        IN  /\ a.ok
            /\ c.ok
            /\ c.db.stays[s] = stays[s]
            /\ stays[s].room_number \in DOMAIN c.db.rooms
            /\ c.db.rooms[stays[s].room_number] = "OCCUPIED"

\* C2: of the check_in calls that run at the same time on different
\* reservations holding the same room over overlapping [arrival, departure)
\* intervals, at most one returns success.
C2_AtMostOneConcurrentCheckIn ==
    \A c \in Clients, d \in Clients :
        ( /\ c # d
          /\ pcs[c].pc = "done" /\ pcs[d].pc = "done"
          /\ pcs[c].op = "check_in" /\ pcs[d].op = "check_in"
          /\ pcs[c].raced /\ pcs[d].raced
          /\ pcs[c].res_id # pcs[d].res_id
          /\ pcs[c].room # NULL /\ pcs[c].room = pcs[d].room
          /\ Day(pcs[c].arr) < Day(pcs[d].dep)
          /\ Day(pcs[d].arr) < Day(pcs[c].dep) )
            => ~(pcs[c].ok /\ pcs[d].ok)

\* the k-th recorded call is op, and so is the next one
Twice(k, op) == k < Len(calls) /\ calls[k].op = op /\ calls[k + 1].op = op

\* C6: whatever stays and room statuses resync finds, it leaves each room
\* OCCUPIED exactly when a CHECKED_IN stay of the table carries its number,
\* and VACANT otherwise.
C6_ResyncDerivesStatus ==
    \A k \in 1..Len(calls) :
        calls[k].op = "resync" =>
            /\ DOMAIN Post(k).rooms = DOMAIN calls[k].pre.rooms
            /\ \A r \in DOMAIN Post(k).rooms :
                   Derived([stays |-> calls[k].pre.stays, rooms |-> Post(k).rooms], r)

\* resync has run on a table where one room was OCCUPIED with no CHECKED_IN
\* stay and another VACANT with one
C6_Witness ==
    \E k \in 1..Len(calls) :
        /\ calls[k].op = "resync"
        /\ \E r \in DOMAIN calls[k].pre.rooms, q \in DOMAIN calls[k].pre.rooms :
              /\ calls[k].pre.rooms[r] = "OCCUPIED"
              /\ r \notin CheckedInRooms(calls[k].pre)
              /\ calls[k].pre.rooms[q] = "VACANT"
              /\ q \in CheckedInRooms(calls[k].pre)

\* C7: resync returns without error, changes no stay and no reservation, and
\* a second resync right after it leaves the room statuses the first left.
C7_ResyncIdempotentTotal ==
    \A k \in 1..Len(calls) :
        calls[k].op = "resync" =>
            /\ calls[k].ok
            /\ Post(k).stays = calls[k].pre.stays
            /\ Post(k).reservations = calls[k].pre.reservations
            /\ Twice(k, "resync") => Post(k + 1).rooms = Post(k).rooms

\* resync has run twice in a row, and the first run changed a status
C7_Witness ==
    \E k \in 1..Len(calls) :
        /\ Twice(k, "resync")
        /\ calls[k].pre.rooms # Post(k).rooms
        /\ calls[k].pre.stays # <<>>

\* C8: seed leaves a row for every room number of every block, inserts the
\* absent ones as VACANT, leaves every existing row's status as it was, and
\* a second seed right after it leaves the rooms table the first left.
C8_SeedIdempotent ==
    \A k \in 1..Len(calls) :
        calls[k].op = "seed" =>
            /\ \A b \in 1..Len(ROOM_BLOCKS) :
                   \A n \in ROOM_BLOCKS[b][1]..ROOM_BLOCKS[b][2] :
                       NatToStr(n) \in DOMAIN Post(k).rooms
            /\ \A r \in DOMAIN calls[k].pre.rooms :
                   r \in DOMAIN Post(k).rooms /\ Post(k).rooms[r] = calls[k].pre.rooms[r]
            /\ \A r \in DOMAIN Post(k).rooms \ DOMAIN calls[k].pre.rooms :
                   Post(k).rooms[r] = "VACANT"
            /\ Twice(k, "seed") => Post(k + 1).rooms = Post(k).rooms

\* seed has run twice in a row on a table that had an OCCUPIED room and
\* lacked rooms of the blocks
C8_Witness ==
    \E k \in 1..Len(calls) :
        /\ Twice(k, "seed")
        /\ \E r \in DOMAIN calls[k].pre.rooms : calls[k].pre.rooms[r] = "OCCUPIED"
        /\ ~(BlockRooms \subseteq DOMAIN calls[k].pre.rooms)

\* the k-th recorded call is a check_in that succeeded and the next one is
\* cancel_check_in on the stay it created
CheckInThenCancel(k) ==
    /\ k < Len(calls)
    /\ calls[k].op = "check_in"
    /\ calls[k].ok
    /\ calls[k + 1].op = "cancel_check_in"
    /\ calls[k + 1].arg \in DOMAIN calls[k + 1].pre.stays \ DOMAIN calls[k].pre.stays

\* C9: a successful check_in followed at once by cancel_check_in on the stay
\* it created leaves the stays table as it was before the check_in and the
\* room of that stay VACANT.
C9_CheckInThenCancelRestores ==
    \A k \in 1..Len(calls) :
        CheckInThenCancel(k) =>
            LET room == calls[k + 1].pre.stays[calls[k + 1].arg].room_number
            IN  /\ calls[k + 1].ok
                /\ Post(k + 1).stays = calls[k].pre.stays
                /\ room \in DOMAIN Post(k + 1).rooms
                /\ Post(k + 1).rooms[room] = "VACANT"

\* a check_in has been cancelled at once, in a room whose row the check_in
\* had to insert
C9_Witness ==
    \E k \in 1..Len(calls) :
        /\ CheckInThenCancel(k)
        /\ calls[k + 1].pre.stays[calls[k + 1].arg].room_number
               \notin DOMAIN calls[k].pre.rooms

\* the integers the configured inclusive ranges cover
BlockNumbers == UNION { ROOM_BLOCKS[b][1]..ROOM_BLOCKS[b][2] : b \in 1..Len(ROOM_BLOCKS) }

\* the text s writes the integer n >= 0: blanks around an optional plus
\* sign, zeros, and the decimal digits of n
Denotes(s, n) ==
    /\ s # NULL
    /\ \E i \in 1..Len(s), j \in 1..Len(s) :
        /\ i <= j
        /\ \A k \in 1..(i - 1) : s[k] = " "
        /\ \A k \in (j + 1)..Len(s) : s[k] = " "
        /\ s[i] # " " /\ s[j] # " "
        /\ LET core == SubSeq(s, i, j)
               body == IF core[1] = "+" THEN Tail(core) ELSE core
           IN  \E z \in 0..Len(body) :
                  /\ \A k \in 1..z : body[k] = "0"
                  /\ SubSeq(body, z + 1, Len(body)) = NatToStr(n)

\* C11: is_valid_room_number accepts a text exactly when it writes an
\* integer of a configured inclusive range, and then returns that integer's
\* decimal digits; empty text and every text with a point are rejected.
C11_ValidateAcceptsExactlyBlocks ==
    \A k \in 1..Len(calls) :
        calls[k].op = "validate" =>
            LET raw == calls[k].arg
                ret == calls[k].ret
                hits == { n \in BlockNumbers : Denotes(raw, n) }
            IN  /\ ret.ok <=> hits # {}
                /\ ret.ok => \A n \in hits : ret.result = NatToStr(n)
                /\ (raw = NULL \/ raw = <<>> \/ Contains(raw, ".")) => ~ret.ok

\* a padded text with a leading zero has been accepted in canonical form
C11_Witness ==
    /\ Len(calls) = 1
    /\ calls[1].op = "validate"
    /\ calls[1].arg = <<" ", "0", "1", "0", "6">>
    /\ calls[1].ret.ok
    /\ calls[1].ret.result = R106

\* C12: check_out with an id of no stay but of a reservation with a room
\* succeeds, inserts exactly one stay, CHECKED_OUT, of that reservation with
\* its room and dates, and leaves that room's status VACANT.
C12_SynthesizedCheckOut ==
    \A id \in AnyId :
        ( /\ id \notin DOMAIN stays
          /\ id \in DOMAIN reservations
          /\ Truthy(reservations[id].room_number) )
            => LET ret == checkout_stay(DB, id, now)
                   created == DOMAIN ret.db.stays \ DOMAIN stays
                   res == reservations[id]
               IN  /\ ret.ok
                   /\ Cardinality(created) = 1
                   /\ \A i \in DOMAIN stays : ret.db.stays[i] = stays[i]
                   /\ \A i \in created :
                          /\ ret.db.stays[i].status = "CHECKED_OUT"
                          /\ ret.db.stays[i].reservation_id = id
                          /\ ret.db.stays[i].room_number = res.room_number
                          /\ ret.db.stays[i].checkin_planned = res.arrival_date
                          /\ ret.db.stays[i].checkout_planned = res.depart_date
                   /\ res.room_number \in DOMAIN ret.db.rooms
                   /\ ret.db.rooms[res.room_number] = "VACANT"

\* C13: check_out of a stay that is already CHECKED_OUT returns a failure
\* and leaves the stay, its checkout_actual and the room status unchanged.
C13_CheckOutOnlyFromCheckedIn ==
    \A i \in DOMAIN stays :
        stays[i].status = "CHECKED_OUT" =>
            LET ret == checkout_stay(DB, i, now)
            IN  ~ret.ok /\ ret.db = DB

\* C14: cancel_check_in deletes the stay and sets its room VACANT only for
\* a CHECKED_IN stay; on a CHECKED_OUT stay and on an unknown id it returns a
\* failure and changes nothing.
C14_CancelCheckInOnlyFromCheckedIn ==
    \A id \in AnyId :
        LET ret == cancel_checkin(DB, id)
        IN  IF id \in DOMAIN stays /\ stays[id].status = "CHECKED_IN"
            THEN /\ ret.ok
                 /\ id \notin DOMAIN ret.db.stays
                 /\ stays[id].room_number \in DOMAIN ret.db.rooms
                 /\ ret.db.rooms[stays[id].room_number] = "VACANT"
            ELSE ~ret.ok /\ ret.db = DB

\* C15: cancel_check_out succeeds exactly when the stay exists and is
\* CHECKED_OUT; on an unknown id and on a CHECKED_IN stay it returns a
\* failure and changes no stay and no room status.
C15_CancelCheckOutOnlyFromCheckedOut ==
    \A k \in 1..Len(calls) :
        calls[k].op = "cancel_check_out" =>
            LET pre == calls[k].pre
                id == calls[k].arg
            IN  /\ calls[k].ok <=> (id \in DOMAIN pre.stays /\ pre.stays[id].status = "CHECKED_OUT")
                /\ ~calls[k].ok => Post(k) = pre

\* cancel_check_out has been refused on a CHECKED_IN stay
C15_Witness ==
    \E k \in 1..Len(calls) :
        /\ calls[k].op = "cancel_check_out"
        /\ calls[k].arg \in DOMAIN calls[k].pre.stays
        /\ calls[k].pre.stays[calls[k].arg].status = "CHECKED_IN"
        /\ ~calls[k].ok

\* the reservation is missing, has no room, or its room text is not valid
CannotCheckIn(db, id) ==
    \/ id \notin DOMAIN db.reservations
    \/ ~Truthy(db.reservations[id].room_number)
    \/ ~is_valid_room_number(db.reservations[id].room_number).ok

\* C16: check_in on a missing reservation, on one without a room, and on one
\* whose stored room text fails validation returns a failure and leaves
\* stays, rooms and reservations unchanged.
C16_CheckInFailuresChangeNothing ==
    \A k \in 1..Len(calls) :
        (calls[k].op = "check_in" /\ CannotCheckIn(calls[k].pre, calls[k].arg)) =>
            /\ ~calls[k].ok
            /\ Post(k) = calls[k].pre

\* check_in has been refused on a reservation whose room is stored as 105.0
C16_Witness ==
    \E k \in 1..Len(calls) :
        /\ calls[k].op = "check_in"
        /\ calls[k].arg \in DOMAIN calls[k].pre.reservations
        /\ calls[k].pre.reservations[calls[k].arg].room_number = R105F
        /\ ~calls[k].ok

\* reservations other than id that hold the room over days meeting the
\* half-open interval [arrival, departure) of id
OverlappingHolders(db, id, room) ==
    { o \in DOMAIN db.reservations :
        /\ o # id
        /\ db.reservations[o].room_number = room
        /\ Day(db.reservations[o].arrival_date) < Day(db.reservations[id].depart_date)
        /\ Day(db.reservations[o].depart_date) > Day(db.reservations[id].arrival_date) }

\* the k-th recorded call assigns a valid room text to an existing reservation
AssignsRoom(k) ==
    /\ calls[k].op = "assign_room"
    /\ calls[k].arg[1] \in DOMAIN calls[k].pre.reservations
    /\ is_valid_room_number(calls[k].arg[2]).ok

C19_ReassignSameRoom ==
    \A k \in 1..Len(calls) :
        AssignsRoom(k) =>
            LET pre == calls[k].pre
                id == calls[k].arg[1]
                room == is_valid_room_number(calls[k].arg[2]).result
            IN  (pre.reservations[id].room_number = room /\ OverlappingHolders(pre, id, room) = {})
                    => calls[k].ok

\* C17: no state shows part of an operation's writes: a stay that is
\* CHECKED_IN has its room OCCUPIED in every state other sessions can read.
C17_NoPartialWrites ==
    \A i \in CheckedIn(stays) :
        stays[i].room_number \in DOMAIN rooms => rooms[stays[i].room_number] = "OCCUPIED"

\* C20: of two assign_room calls that run at the same time and give the
\* same room to different reservations with overlapping [arrival, departure)
\* intervals, at most one returns success.
C20_AtMostOneConcurrentAssign ==
    \A c \in Clients, d \in Clients :
        ( /\ c # d
          /\ pcs[c].pc = "done" /\ pcs[d].pc = "done"
          /\ pcs[c].op = "assign_room" /\ pcs[d].op = "assign_room"
          /\ pcs[c].raced /\ pcs[d].raced
          /\ pcs[c].res_id # pcs[d].res_id
          /\ pcs[c].room # NULL /\ pcs[c].room = pcs[d].room
          /\ Day(pcs[c].arr) < Day(pcs[d].dep)
          /\ Day(pcs[d].arr) < Day(pcs[c].dep) )
            => ~(pcs[c].ok /\ pcs[d].ok)

\* the reservations the availability check counts against id taking room:
\* the rows its SELECT matches, in rowid order
FirstConflict(db, id, room) ==
    LET found == AssignmentConflicts(db, room, IsoDate(db.reservations[id].arrival_date),
                                     IsoDate(db.reservations[id].depart_date), id)
    IN  CHOOSE i \in found : \A j \in found : i <= j

\* C21: whenever the availability check reports a conflict, the failure it
\* returns carries the guest of the first conflicting record and the date on
\* which that record's occupancy ends.
C21_ConflictNamesGuestAndEndDate ==
    \A id \in ResIds, room \in {R105, R210} :
        LET a == check_room_available_for_assignment(DB, room,
                     IsoDate(reservations[id].arrival_date),
                     IsoDate(reservations[id].depart_date), id)
        IN  (~a.ok /\ a.msg.text = "Room occupied by") =>
                LET c == FirstConflict(DB, id, room)
                IN  /\ a.msg.guest = reservations[c].guest_name
                    /\ a.msg.until = SqlDate(reservations[c].depart_date)

\* C22: a successful check_in(r) creates exactly one stay, which references
\* r, is CHECKED_IN, carries the validated canonical room number, r's
\* arrival and departure as planned dates, a set checkin_actual and a null
\* checkout_actual, and leaves every other stay as it was; afterwards the
\* room has a row in the inventory with status OCCUPIED, even if it had none.
C22_CheckInCreatesStay ==
    \A k \in 1..Len(calls) :
        (calls[k].op = "check_in" /\ calls[k].ok) =>
            LET pre == calls[k].pre
                res == pre.reservations[calls[k].arg]
                room == is_valid_room_number(res.room_number).result
                created == DOMAIN Post(k).stays \ DOMAIN pre.stays
            IN  /\ Cardinality(created) = 1
                /\ \A i \in DOMAIN pre.stays :
                       i \in DOMAIN Post(k).stays /\ Post(k).stays[i] = pre.stays[i]
                /\ \A i \in created :
                       /\ Post(k).stays[i].reservation_id = calls[k].arg
                       /\ Post(k).stays[i].status = "CHECKED_IN"
                       /\ Post(k).stays[i].room_number = room
                       /\ Post(k).stays[i].checkin_planned = res.arrival_date
                       /\ Post(k).stays[i].checkout_planned = res.depart_date
                       /\ Post(k).stays[i].checkin_actual # NULLT
                       /\ Post(k).stays[i].checkout_actual = NULLT
                /\ room \in DOMAIN Post(k).rooms
                /\ Post(k).rooms[room] = "OCCUPIED"

\* a check_in has succeeded on a reservation whose room is stored with a
\* blank and a leading zero and had no row in the inventory
C22_Witness ==
    \E k \in 1..Len(calls) :
        /\ calls[k].op = "check_in"
        /\ calls[k].ok
        /\ calls[k].pre.reservations[calls[k].arg].room_number = R106Padded
        /\ R106 \notin DOMAIN calls[k].pre.rooms
        /\ R106 \in DOMAIN Post(k).rooms

\* reservations other than id, referenced by no CHECKED_IN stay, that hold
\* the room over days meeting the half-open interval of id
TentativeHolders(db, id, room) ==
    { o \in OverlappingHolders(db, id, room) :
        \A i \in CheckedIn(db.stays) : db.stays[i].reservation_id # o }

\* C23: check_in(r) succeeds when a reservation that is not checked in has
\* r's room assigned over an overlapping interval, provided no CHECKED_IN
\* stay of another reservation on that room overlaps r's interval.
C23_CheckInIgnoresTentativeHolders ==
    \A k \in 1..Len(calls) :
        (calls[k].op = "check_in" /\ ~CannotCheckIn(calls[k].pre, calls[k].arg)) =>
            LET pre == calls[k].pre
                r == calls[k].arg
                room == is_valid_room_number(pre.reservations[r].room_number).result
            IN  (TentativeHolders(pre, r, room) # {} /\ BlockingStays(pre, r, room) = {})
                    => calls[k].ok

\* check_in has succeeded on a room that another reservation, not checked
\* in, holds over the same days
C23_Witness ==
    \E k \in 1..Len(calls) :
        /\ calls[k].op = "check_in"
        /\ ~CannotCheckIn(calls[k].pre, calls[k].arg)
        /\ LET pre == calls[k].pre
               r == calls[k].arg
               room == is_valid_room_number(pre.reservations[r].room_number).result
           IN  TentativeHolders(pre, r, room) # {} /\ BlockingStays(pre, r, room) = {}
        /\ calls[k].ok

\* C24: every step of the engine that adds a row to stays adds it in
\* status CHECKED_IN: no operation inserts a stay that starts CHECKED_OUT.
C24_StaysStartCheckedIn ==
    [][\A i \in DOMAIN stays' \ DOMAIN stays : stays'[i].status = "CHECKED_IN"]_vars

\* the stays of db that reference reservation r
StaysOf(db, r) == { s \in DOMAIN db.stays : db.stays[s].reservation_id = r }

\* the reservation the k-th recorded call acted on, for a call that takes a
\* stay id: the stay's reservation, or the id itself when no stay has it
ReservationOfCall(k) ==
    IF calls[k].arg \in DOMAIN calls[k].pre.stays
    THEN calls[k].pre.stays[calls[k].arg].reservation_id
    ELSE calls[k].arg

\* C25: arrivals_for(d) returns exactly the reservations that arrive on d
\* and have no CHECKED_IN and no CHECKED_OUT stay; a reservation is absent
\* from the list right after its successful check_in and right after its
\* check_out, and present again right after cancel_check_in removed its
\* only stay.
C25_ArrivalsExact ==
    \A k \in 1..Len(calls) :
        calls[k].op = "arrivals_for" =>
            LET pre == calls[k].pre
                d == calls[k].arg
            IN  /\ calls[k].rows =
                       { r \in DOMAIN pre.reservations :
                           /\ Day(pre.reservations[r].arrival_date) = d
                           /\ \A s \in StaysOf(pre, r) :
                                  pre.stays[s].status \notin {"CHECKED_IN", "CHECKED_OUT"} }
                /\ (k > 1 /\ calls[k - 1].op = "check_in")
                       => calls[k - 1].arg \notin calls[k].rows
                /\ (k > 1 /\ calls[k - 1].op = "check_out")
                       => ReservationOfCall(k - 1) \notin calls[k].rows
                /\ ( /\ k > 1
                      /\ calls[k - 1].op = "cancel_check_in"
                      /\ StaysOf(pre, ReservationOfCall(k - 1)) = {}
                      /\ ReservationOfCall(k - 1) \in DOMAIN pre.reservations
                      /\ Day(pre.reservations[ReservationOfCall(k - 1)].arrival_date) = d )
                       => ReservationOfCall(k - 1) \in calls[k].rows

\* a reservation was checked in, its check-in was cancelled, and the list
\* of its arrival day shows it again
C25_Witness ==
    /\ Len(calls) = 3
    /\ calls[1].op = "check_in"
    /\ calls[2].op = "cancel_check_in"
    /\ ReservationOfCall(2) = calls[1].arg
    /\ calls[3].op = "arrivals_for"
    /\ calls[1].arg \in calls[3].rows

\* C26: in_house_for(d) returns exactly the CHECKED_IN stays whose planned
\* interval covers d as checkin_planned <= d < checkout_planned; a stay
\* whose planned checkout date is d is not in the list of d.
C26_InHouseHalfOpen ==
    \A k \in 1..Len(calls) :
        calls[k].op = "in_house_for" =>
            LET pre == calls[k].pre
                d == calls[k].arg
            IN  calls[k].rows =
                    { s \in CheckedIn(pre.stays) :
                        /\ Day(pre.stays[s].checkin_planned) <= d
                        /\ d < Day(pre.stays[s].checkout_planned) }

\* C27: departures_for(d) returns every departure planned for d that is not
\* yet CHECKED_OUT: each stay whose checkout_planned is d and whose status
\* is not CHECKED_OUT, and each reservation that departs on d and has no
\* stay at all.  A row of the list names the stay (s.id) and the
\* reservation (r.id) it shows.
C27_DeparturesComplete ==
    \A k \in 1..Len(calls) :
        calls[k].op = "departures_for" =>
            LET pre == calls[k].pre
                d == calls[k].arg
            IN  /\ \A s \in DOMAIN pre.stays :
                       ( /\ Day(pre.stays[s].checkout_planned) = d
                         /\ pre.stays[s].status # "CHECKED_OUT" ) => s \in calls[k].rows
                /\ \A r \in DOMAIN pre.reservations :
                       ( /\ Day(pre.reservations[r].depart_date) = d
                         /\ StaysOf(pre, r) = {} )
                           => \E s \in calls[k].rows : pre.stays[s].reservation_id = r

Views == {"arrivals_for", "in_house_for", "departures_for", "checked_out_for"}

\* what each list shows of the database db for day d, as the engine selects it
ListedOn(op, db, d) ==
    CASE op = "arrivals_for" ->
            { r \in DOMAIN db.reservations :
                /\ Day(db.reservations[r].arrival_date) = d
                /\ \A s \in StaysOf(db, r) : db.stays[s].status \notin {"CHECKED_IN", "CHECKED_OUT"} }
      [] op = "in_house_for" ->
            { s \in CheckedIn(db.stays) :
                Day(db.stays[s].checkin_planned) <= d /\ d <= Day(db.stays[s].checkout_planned) }
      [] op = "departures_for" ->
            { s \in CheckedIn(db.stays) : Day(db.stays[s].checkout_planned) = d }
      [] op = "checked_out_for" ->
            { s \in DOMAIN db.stays :
                db.stays[s].status = "CHECKED_OUT" /\ Day(db.stays[s].checkout_actual) = d }

\* C28: a call of arrivals_for, in_house_for, departures_for or
\* checked_out_for leaves reservations, stays, rooms and the stay counter as
\* it found them, for every date, and returns what the database holds at
\* that call, also when the same list was fetched for the same date before
\* an operation changed the database.
C28_ViewsReadOnlyAndFresh ==
    \A k \in 1..Len(calls) :
        calls[k].op \in Views =>
            /\ Post(k) = calls[k].pre
            /\ calls[k].rows = ListedOn(calls[k].op, calls[k].pre, calls[k].arg)

\* the same list was fetched twice for the same date with an operation in
\* between, and the second call returned other rows than the first
C28_Witness ==
    /\ Len(calls) = 3
    /\ calls[1].op = "departures_for"
    /\ calls[3].op = "departures_for"
    /\ calls[1].arg = calls[3].arg
    /\ calls[2].op \notin Views
    /\ calls[1].rows # calls[3].rows

\* a step deletes no reservation and removes no room of the inventory
NothingRemoved ==
    /\ DOMAIN reservations \subseteq DOMAIN reservations'
    /\ DOMAIN rooms \subseteq DOMAIN rooms'

\* a step of check_in, check_out, cancel_check_in, cancel_check_out or resync
LifecycleStep == CheckIn \/ CheckOut \/ CancelCheckIn \/ CancelCheckOut \/ Resync

\* C29 as stated: no step deletes a reservation or removes a room; check_in,
\* check_out, cancel_check_in, cancel_check_out and resync leave every
\* reservation as it was; and a step changes of a reservation nothing but
\* its room field.
C29_OnlyRoomFieldChanges ==
    [][ /\ NothingRemoved
        /\ LifecycleStep => reservations' = reservations
        /\ \A r \in DOMAIN reservations :
               reservations'[r] =
                   [reservations[r] EXCEPT !.room_number = reservations'[r].room_number] ]_vars

\* C29, amended: no step deletes a reservation or removes a room; check_in,
\* check_out, cancel_check_in, cancel_check_out and resync leave every
\* reservation as it was; and a step changes of a reservation nothing but
\* its room field and its updated_at timestamp.
C29_OnlyRoomAndTimestampChange ==
    [][ /\ NothingRemoved
        /\ LifecycleStep => reservations' = reservations
        /\ \A r \in DOMAIN reservations :
               reservations'[r] =
                   [reservations[r] EXCEPT !.room_number = reservations'[r].room_number,
                                           !.updated_at = reservations'[r].updated_at] ]_vars

\* a reservation was given another room by assign_room, which stamped it,
\* and was then checked in
C29_Witness ==
    \E r \in DOMAIN reservations :
        /\ reservations[r].room_number = R106
        /\ reservations[r].updated_at # ImportedAt
        /\ \E s \in CheckedIn(stays) : stays[s].reservation_id = r

\* C30: for a reservation whose arrival date is not strictly before its
\* departure date, assign_room and check_in return a failure and record
\* neither the assignment nor a stay.
C30_RefusesUnorderedDates ==
    \A k \in 1..Len(calls) :
        LET pre == calls[k].pre
            r == IF calls[k].op = "assign_room" THEN calls[k].arg[1] ELSE calls[k].arg
        IN  ( /\ calls[k].op \in {"assign_room", "check_in"}
              /\ r \in DOMAIN pre.reservations
              /\ ~(Day(pre.reservations[r].arrival_date) < Day(pre.reservations[r].depart_date)) )
                => /\ ~calls[k].ok
                   /\ Post(k).reservations = pre.reservations
                   /\ Post(k).stays = pre.stays

\* the integers of the configured ranges that the text writes
RoomsDenoted(raw) == { n \in BlockNumbers : Denotes(raw, n) }

\* C31: assign_room(r, raw) succeeds only for a known reservation r and a
\* raw text that writes an integer of a configured range, so it returns a
\* failure on an empty, a fractional and an out-of-range text and on an
\* unknown id; a failure leaves every reservation as it was; on success the
\* room written on r is the decimal form of that integer, and no other
\* reservation changed.
C31_AssignRejectsBadInput ==
    \A k \in 1..Len(calls) :
        calls[k].op = "assign_room" =>
            LET pre == calls[k].pre
                r == calls[k].arg[1]
                raw == calls[k].arg[2]
            IN  /\ ~calls[k].ok => Post(k).reservations = pre.reservations
                /\ calls[k].ok =>
                       /\ r \in DOMAIN pre.reservations
                       /\ \E n \in RoomsDenoted(raw) :
                              Post(k).reservations[r].room_number = NatToStr(n)
                       /\ \A o \in DOMAIN pre.reservations \ {r} :
                              Post(k).reservations[o] = pre.reservations[o]

\* an assignment typed with a blank and a leading zero has been written in
\* canonical form, and a fractional text has been refused
C31_Witness ==
    /\ Len(calls) = 2
    /\ calls[1].op = "assign_room" /\ calls[1].arg[2] = R106Padded /\ calls[1].ok
    /\ Post(1).reservations[calls[1].arg[1]].room_number = R106
    /\ calls[2].op = "assign_room" /\ calls[2].arg[2] = R105F /\ ~calls[2].ok

\* reservations other than id that carry the room
Holders(db, id, room) ==
    { o \in DOMAIN db.reservations : o # id /\ db.reservations[o].room_number = room }

\* C32: assign_room(b, room) succeeds when every other reservation holding
\* the room departs on b's arrival date or arrives on b's departure date.
C32_BackToBackAllowed ==
    \A k \in 1..Len(calls) :
        AssignsRoom(k) =>
            LET pre == calls[k].pre
                b == calls[k].arg[1]
                room == is_valid_room_number(calls[k].arg[2]).result
            IN  ( /\ Holders(pre, b, room) # {}
                  /\ \A o \in Holders(pre, b, room) :
                         \/ Day(pre.reservations[o].depart_date) = Day(pre.reservations[b].arrival_date)
                         \/ Day(pre.reservations[o].arrival_date) = Day(pre.reservations[b].depart_date) )
                    => calls[k].ok

\* C33: in every state the engine reaches, a CHECKED_IN stay has no
\* checkout_actual, a CHECKED_OUT stay has one, and every stay has a
\* checkin_actual.
C33_TimestampsFollowStatus ==
    \A i \in DOMAIN stays :
        /\ stays[i].status = "CHECKED_IN" => stays[i].checkout_actual = NULLT
        /\ stays[i].status = "CHECKED_OUT" => stays[i].checkout_actual # NULLT
        /\ stays[i].checkin_actual # NULLT

\* a stay that check_out synthesized (its room lies in no range, so no
\* check_in made it) is CHECKED_IN again after cancel_check_out, next to a
\* CHECKED_OUT stay
C33_Witness ==
    /\ \E i \in CheckedIn(stays) : stays[i].room_number = R210
    /\ \E i \in DOMAIN stays : stays[i].status = "CHECKED_OUT"

\* C34: check_out with the id of a reservation r that has no stay changes
\* no stay of another reservation: when a stay of another reservation
\* carries the same number as its id, that stay and the status of its room
\* are as before.
C34_CheckOutKeepsIdSpacesApart ==
    \A r \in DOMAIN reservations :
        ( /\ StaysOf(DB, r) = {}
          /\ r \in DOMAIN stays )
            => LET ret == checkout_stay(DB, r, now)
               IN  /\ ret.db.stays[r] = stays[r]
                   /\ \A q \in DOMAIN rooms :
                          q = stays[r].room_number => ret.db.rooms[q] = rooms[q]

\* C35: check_out repeated with the id of a reservation that never had a
\* check-in leaves at most one synthesized CHECKED_OUT stay of that
\* reservation, however often it is repeated.
C35_OneSynthesizedStay ==
    \A r \in DOMAIN reservations :
        StaysOf(DB, r) = {} =>
            LET a == checkout_stay(DB, r, now)
                b == checkout_stay(a.db, r, now)
            IN  Cardinality(StaysOf(b.db, r)) <= 1

\* C36: in every reachable state the room number of each CHECKED_IN stay is
\* the room assigned on its reservation.
C36_StayRoomIsReservationRoom ==
    \A i \in CheckedIn(stays) :
        stays[i].reservation_id \in DOMAIN reservations
            => stays[i].room_number = reservations[stays[i].reservation_id].room_number

\* C37: when resync ran at the same time as a check_in, a check_out or a
\* cancel_check_in, then once all of them have returned every room of the
\* inventory is OCCUPIED exactly when a CHECKED_IN stay references it.
C37_ResyncSafeUnderConcurrency ==
    ( /\ \A c \in Clients : pcs[c].pc = "done"
      /\ \E c \in Clients : pcs[c].op = "resync" /\ pcs[c].raced
      /\ \E c \in Clients : pcs[c].op \in {"check_in", "check_out", "cancel_check_in"} )
        => \A r \in DOMAIN rooms : Derived(DB, r)

\* C38: in every state the engine reaches, the room number of every stay is
\* the canonical text of a number of a configured range and has a row in
\* the rooms table.
C38_StayRoomsAreInventoryRooms ==
    \A i \in DOMAIN stays :
        /\ \E n \in BlockNumbers : stays[i].room_number = NatToStr(n)
        /\ stays[i].room_number \in DOMAIN rooms

====
